---- MODULE Spec2Model ----
(***************************************************************************)
(* Numeric reduction layer of ndarray (src/src/numeric/impl_numeric.rs):   *)
(* sum, mean, max, min, nanmax, nanmin, sum_axis, mean_axis, var_axis over *)
(* strided n-dimensional arrays.                                           *)
(*                                                                         *)
(* Element type A.  A scalar is a record [k, n, d]: an exact rational n/d  *)
(* in lowest terms (k = "num"), a NaN (k = "nan") or an infinity of sign n *)
(* (k = "inf").  Arithmetic is exact: rounding is not modelled.            *)
(***************************************************************************)
EXTENDS Integers, Sequences, FiniteSets, TLC

VARIABLES
    a,        \* the array the operation is called on (self)
    narrow,   \* TRUE: A::from_usize fails above MaxConv; FALSE: never fails
    op,       \* the operation called and its arguments
    pc,       \* "ready", "loop", "done" or "panic"
    res,      \* the value returned (meaningful when pc = "done")
    mean_acc, \* var_axis: the running mean array
    sum_sq,   \* var_axis: the running sum of squares array
    i,        \* var_axis: number of slices consumed so far
    conv_log, \* the arguments from_usize was called with, in call order
    index_log \* the <<axis, index, extent>> of every index_axis call made

vars == <<a, narrow, op, pc, res, mean_acc, sum_sq, i, conv_log, index_log>>

(***************************************************************************)
(* Bounds of the model.                                                    *)
(***************************************************************************)
MaxElems == 4   \* the enumerated inputs hold at most MaxElems elements
MaxVal == 1     \* element values of the enumerated inputs: 0..MaxVal
MaxConv == 3    \* largest count a narrow element type converts from usize

(***************************************************************************)
(* Scalars                                                                 *)
(***************************************************************************)
Abs(n) == IF n < 0 THEN -n ELSE n
Sgn(n) == IF n < 0 THEN -1 ELSE IF n > 0 THEN 1 ELSE 0

RECURSIVE GCD(_, _)
GCD(m, n) == IF n = 0 THEN m ELSE GCD(n, m % n)

NaN == [k |-> "nan", n |-> 0, d |-> 1]
Inf(s) == [k |-> "inf", n |-> s, d |-> 1]
Rat(n, d) ==
    LET g == GCD(Abs(n), d)
    IN  [k |-> "num", n |-> n \div g, d |-> d \div g]
Num(n) == [k |-> "num", n |-> n, d |-> 1]

\* A::zero()
zero == Num(0)

\* PartialEq / PartialOrd of A: every comparison with a NaN is false.
eq(x, y) == x.k # "nan" /\ y.k # "nan" /\ x = y
lt(x, y) ==
    /\ x.k # "nan" /\ y.k # "nan"
    /\ CASE x.k = "inf" -> x.n < 0 /\ ~(y.k = "inf" /\ y.n < 0)
         [] y.k = "inf" -> y.n > 0
         [] OTHER -> x.n * y.d < y.n * x.d
gt(x, y) == lt(y, x)

Neg(x) == [x EXCEPT !.n = -x.n]

add(x, y) ==
    CASE x.k = "nan" \/ y.k = "nan" -> NaN
      [] x.k = "inf" -> IF y.k = "inf" /\ y.n # x.n THEN NaN ELSE x
      [] y.k = "inf" -> y
      [] OTHER -> Rat(x.n * y.d + y.n * x.d, x.d * y.d)

sub(x, y) == add(x, Neg(y))

mul(x, y) ==
    CASE x.k = "nan" \/ y.k = "nan" -> NaN
      [] x.k = "inf" \/ y.k = "inf" ->
            IF x.n = 0 \/ y.n = 0 THEN NaN ELSE Inf(Sgn(x.n) * Sgn(y.n))
      [] OTHER -> Rat(x.n * y.n, x.d * y.d)

div(x, y) ==
    CASE x.k = "nan" \/ y.k = "nan" -> NaN
      [] x.k = "inf" -> IF y.k = "inf" THEN NaN
                        ELSE Inf(x.n * (IF y.n < 0 THEN -1 ELSE 1))
      [] y.k = "inf" -> zero
      [] y.n = 0 -> IF x.n = 0 THEN NaN ELSE Inf(Sgn(x.n))
      [] OTHER -> Rat(x.n * y.d * Sgn(y.n), x.d * Abs(y.n))

\* Float::mul_add: self * m + b with a single rounding (none here).
mul_add(self, m, b) == add(mul(self, m), b)

\* Option<T>
None == [some |-> FALSE]
Some(v) == [some |-> TRUE, val |-> v]

\* FromPrimitive::from_usize for the element type of this run.  A is a type
\* parameter: for a narrow element type (an i8, say) the conversion of a
\* count returns None above the type's range, here above MaxConv.
from_usize(n) == IF narrow /\ n > MaxConv THEN None ELSE Some(Num(n))

(***************************************************************************)
(* Arrays: ArrayBase<S, D>.  dim and strides are sequences with one entry  *)
(* per axis (axes are numbered from 0, as in Axis(n)); ptr is the offset   *)
(* of the element at index [0, .., 0] in the buffer data (offsets from 0). *)
(***************************************************************************)
RECURSIVE Prod(_)
Prod(s) == IF s = <<>> THEN 1 ELSE Head(s) * Prod(Tail(s))

FoldLeft(f(_, _), init, s) ==
    LET F[k \in 0..Len(s)] == IF k = 0 THEN init ELSE f(F[k - 1], s[k])
    IN  F[Len(s)]

ndim(x) == Len(x.dim)
len(x) == Prod(x.dim)

\* Dimension::default_strides: row-major, all zero for an empty array.
default_strides(dim) ==
    [k \in 1..Len(dim) |->
        IF \E m \in 1..Len(dim) : dim[m] = 0 THEN 0
        ELSE Prod(SubSeq(dim, k + 1, Len(dim)))]

\* RemoveAxis::remove_axis
remove_axis(s, axis) == SubSeq(s, 1, axis) \o SubSeq(s, axis + 2, Len(s))

\* The logical indices of a shape.
RECURSIVE Indices(_)
Indices(dim) ==
    IF dim = <<>> THEN {<<>>}
    ELSE {<<j>> \o t : j \in 0..(Head(dim) - 1), t \in Indices(Tail(dim))}

RECURSIVE Dot(_, _)
Dot(idx, strides) ==
    IF idx = <<>> THEN 0
    ELSE Head(idx) * Head(strides) + Dot(Tail(idx), Tail(strides))

\* The buffer offset of the element at a logical index.
OffsetOf(x, idx) == x.ptr + Dot(idx, x.strides)
At(x, idx) == x.data[OffsetOf(x, idx) + 1]

\* ArrayBase::len_of, ArrayBase::strides
len_of(x, axis) == x.dim[axis + 1]
stride_of(x, axis) == x.strides[axis + 1]

\* ArrayBase::index_axis: the view with `axis` fixed at `index`.
index_axis(x, axis, index) ==
    [dim     |-> remove_axis(x.dim, axis),
     strides |-> remove_axis(x.strides, axis),
     ptr     |-> x.ptr + index * stride_of(x, axis),
     data    |-> x.data]

\* ArrayBase::iter: the element references (buffer offsets) in logical order,
\* the last axis varying fastest.
RECURSIVE Refs(_)
Refs(x) ==
    IF ndim(x) = 0 THEN <<x.ptr>>
    ELSE LET F[j \in 0..len_of(x, 0)] ==
                 IF j = 0 THEN <<>>
                 ELSE F[j - 1] \o Refs(index_axis(x, 0, j - 1))
         IN  F[len_of(x, 0)]

Deref(x, r) == x.data[r + 1]
Elems(x) ==
    LET refs == Refs(x)
    IN  [k \in 1..Len(refs) |-> Deref(x, refs[k])]

\* An owned array of shape dim in standard layout over the elements given in
\* logical order (Array::from_shape_vec).
from_shape_vec(dim, v) ==
    [dim |-> dim, strides |-> default_strides(dim), ptr |-> 0, data |-> v]

\* Array::zeros
zeros(dim) == from_shape_vec(dim, [k \in 1..Prod(dim) |-> zero])

\* aview0
aview0(v) == from_shape_vec(<<>>, <<v>>)

\* Contiguity classifier: the strides are the row-major or the column-major
\* ones of the shape; the stride of an axis of extent <= 1 is free.
is_c_order(x) ==
    \A k \in 1..ndim(x) :
        x.dim[k] > 1 => x.strides[k] = Prod(SubSeq(x.dim, k + 1, ndim(x)))
is_f_order(x) ==
    \A k \in 1..ndim(x) :
        x.dim[k] > 1 => x.strides[k] = Prod(SubSeq(x.dim, 1, k - 1))
is_contiguous(x) == len(x) = 0 \/ is_c_order(x) \/ is_f_order(x)

\* ArrayBase::as_slice_memory_order: the elements in memory order.
as_slice_memory_order(x) ==
    IF is_contiguous(x)
    THEN Some([k \in 1..len(x) |-> x.ptr + k - 1])
    ELSE None

\* ArrayBase::as_slice of a one-dimensional row.
as_slice(row) ==
    IF len(row) <= 1 \/ row.strides[1] = 1
    THEN Some(Refs(row))
    ELSE None

\* ArrayBase::inner_rows: the lanes along the last axis, in logical order
\* of the remaining axes.
RECURSIVE inner_rows(_)
inner_rows(x) ==
    IF ndim(x) <= 1 THEN <<x>>
    ELSE LET F[j \in 0..len_of(x, 0)] ==
                 IF j = 0 THEN <<>>
                 ELSE F[j - 1] \o inner_rows(index_axis(x, 0, j - 1))
         IN  F[len_of(x, 0)]

\* ArrayBase::first
first(x) == IF len(x) = 0 THEN None ELSE Some(x.ptr)

\* The order in which ArrayBase::fold visits the elements, each once: memory
\* order when the array is contiguous, logical order otherwise.
fold_order(x) ==
    IF as_slice_memory_order(x).some
    THEN as_slice_memory_order(x).val
    ELSE Refs(x)

(***************************************************************************)
(* numeric_util::unrolled_fold(xs, init, A::add): eight partial            *)
(* accumulators over the full blocks of eight, combined pairwise, then the *)
(* remaining elements.                                                     *)
(***************************************************************************)
unrolled_fold(xs, init) ==
    LET blocks == Len(xs) \div 8
        P[j \in 0..7] ==
            FoldLeft(add, init, [c \in 1..blocks |-> xs[8 * (c - 1) + j + 1]])
        acc0 == add(add(add(add(init, add(P[0], P[4])), add(P[1], P[5])),
                        add(P[2], P[6])), add(P[3], P[7]))
    IN  FoldLeft(add, acc0, SubSeq(xs, 8 * blocks + 1, Len(xs)))

Values(x, refs) == [k \in 1..Len(refs) |-> Deref(x, refs[k])]

(***************************************************************************)
(* impl_numeric.rs                                                         *)
(***************************************************************************)
\* A faulty variant: the row's sum replaces the running sum instead of being added.
sum_row_overwrite(acc, row) ==
    IF as_slice(row).some
    THEN unrolled_fold(Values(row, as_slice(row).val), zero)
    ELSE FoldLeft(add, zero, Elems(row))

\* sum: inner loop body, one row of inner_rows()
sum_row(acc, row) ==
    IF as_slice(row).some
    THEN add(acc, unrolled_fold(Values(row, as_slice(row).val), zero))
    ELSE add(acc, FoldLeft(add, zero, Elems(row)))

sum(self) ==
    IF as_slice_memory_order(self).some
    THEN unrolled_fold(Values(self, as_slice_memory_order(self).val), zero)
    ELSE FoldLeft(sum_row, zero, inner_rows(self))

\* A faulty variant: the count is converted before it is tested for zero.
mean_convert_first(self) ==
    LET n_elements == len(self)
    IN  IF ~from_usize(n_elements).some
        THEN [panic |-> TRUE, val |-> None, conv |-> <<n_elements>>]
        ELSE IF n_elements = 0
        THEN [panic |-> FALSE, val |-> None, conv |-> <<n_elements>>]
        ELSE [panic |-> FALSE,
              val   |-> Some(div(sum(self), from_usize(n_elements).val)),
              conv  |-> <<n_elements>>]

\* mean: the result, whether it panicked, and the from_usize calls made.
mean(self) ==
    LET n_elements == len(self)
    IN  IF n_elements = 0
        THEN [panic |-> FALSE, val |-> None, conv |-> <<>>]
        ELSE IF ~from_usize(n_elements).some
        THEN [panic |-> TRUE, val |-> None, conv |-> <<n_elements>>]
        ELSE [panic |-> FALSE,
              val   |-> Some(div(sum(self), from_usize(n_elements).val)),
              conv  |-> <<n_elements>>]

\* The closures folded by max, nanmax, min and nanmin; acc and x are element
\* references into self.

\* A faulty variant: adopts x only when it compares greater, so a NaN is never adopted.
max_closure_strict(self, acc, x) ==
    IF eq(Deref(self, acc), Deref(self, acc))
       /\ gt(Deref(self, x), Deref(self, acc))
    THEN x ELSE acc

max_closure(self, acc, x) ==
    IF eq(Deref(self, acc), Deref(self, acc))
       /\ ~lt(Deref(self, x), Deref(self, acc))
    THEN x ELSE acc

\* A faulty variant: the accumulator is not tested for being ordered.
nanmax_closure_unseeded(self, acc, x) ==
    IF ~gt(Deref(self, x), Deref(self, acc))
    THEN acc ELSE x

nanmax_closure(self, acc, x) ==
    IF eq(Deref(self, acc), Deref(self, acc))
       /\ ~gt(Deref(self, x), Deref(self, acc))
    THEN acc ELSE x

min_closure(self, acc, x) ==
    IF eq(Deref(self, acc), Deref(self, acc))
       /\ ~lt(Deref(self, acc), Deref(self, x))
    THEN x ELSE acc

\* A faulty variant: the comparison of nanmax.
nanmin_closure_gt(self, acc, x) ==
    IF eq(Deref(self, acc), Deref(self, acc))
       /\ ~gt(Deref(self, x), Deref(self, acc))
    THEN acc ELSE x

nanmin_closure(self, acc, x) ==
    IF eq(Deref(self, acc), Deref(self, acc))
       /\ ~lt(Deref(self, x), Deref(self, acc))
    THEN acc ELSE x

\* if m == m { Some(m) } else { None }
some_if_ordered(self, m) ==
    IF eq(Deref(self, m), Deref(self, m)) THEN Some(m) ELSE None

max(self) ==
    IF first(self).some
    THEN some_if_ordered(self,
             FoldLeft(LAMBDA acc, x : max_closure(self, acc, x),
                      first(self).val, fold_order(self)))
    ELSE None

nanmax(self) ==
    IF first(self).some
    THEN some_if_ordered(self,
             FoldLeft(LAMBDA acc, x : nanmax_closure(self, acc, x),
                      first(self).val, fold_order(self)))
    ELSE None

min(self) ==
    IF first(self).some
    THEN some_if_ordered(self,
             FoldLeft(LAMBDA acc, x : min_closure(self, acc, x),
                      first(self).val, fold_order(self)))
    ELSE None

nanmin(self) ==
    IF first(self).some
    THEN some_if_ordered(self,
             FoldLeft(LAMBDA acc, x : nanmin_closure(self, acc, x),
                      first(self).val, fold_order(self)))
    ELSE None

\* Array + &view and Array / &view on arrays of one shape: element-wise, the
\* result an owned array in standard layout.
array_add(x, y) ==
    LET xs == Elems(x)
        ys == Elems(y)
    IN  from_shape_vec(x.dim, [k \in 1..Len(xs) |-> add(xs[k], ys[k])])
array_div_scalar(x, s) ==
    LET xs == Elems(x)
    IN  from_shape_vec(x.dim, [k \in 1..Len(xs) |-> div(xs[k], s)])

\* sum_axis, fast path: *elt = self.index_axis(Axis(1 - ax), i).sum() for
\* every element i of res.
sum_axis_fast(self, axis) ==
    LET dim == remove_axis(self.dim, axis)
        n_out == Prod(dim)
    IN  [val |-> from_shape_vec(dim,
                    [k \in 1..n_out |-> sum(index_axis(self, 1 - axis, k - 1))]),
         idx |-> [k \in 1..n_out |->
                    <<1 - axis, k - 1, len_of(self, 1 - axis)>>]]

\* A faulty variant: the loop starts at the second slice.
sum_axis_general_from_one(self, axis) ==
    LET n == len_of(self, axis)
        R[j \in 0..n] ==
            IF j <= 1 THEN zeros(remove_axis(self.dim, axis))
            ELSE array_add(R[j - 1], index_axis(self, axis, j - 1))
    IN  [val |-> R[n],
         idx |-> [k \in 1..(n - 1) |-> <<axis, k, len_of(self, axis)>>]]

\* sum_axis, general path: res = res + &self.index_axis(axis, i), i in 0..n.
sum_axis_general(self, axis) ==
    LET n == len_of(self, axis)
        R[j \in 0..n] ==
            IF j = 0 THEN zeros(remove_axis(self.dim, axis))
            ELSE array_add(R[j - 1], index_axis(self, axis, j - 1))
    IN  [val |-> R[n],
         idx |-> [k \in 1..n |-> <<axis, k - 1, len_of(self, axis)>>]]

\* The condition of the fast path.
sum_axis_is_fast(self, axis) == ndim(self) = 2 /\ stride_of(self, axis) = 1

\* sum_axis: panics when axis is out of bounds (len_of).
sum_axis(self, axis) ==
    IF axis >= ndim(self)
    THEN [panic |-> TRUE, val |-> zeros(<<>>), idx |-> <<>>]
    ELSE LET r == IF sum_axis_is_fast(self, axis)
                  THEN sum_axis_fast(self, axis)
                  ELSE sum_axis_general(self, axis)
         IN  [panic |-> FALSE, val |-> r.val, idx |-> r.idx]

\* A faulty variant: None for an array without elements, not for an axis without length.
mean_axis_len(self, axis) ==
    IF axis >= ndim(self)
    THEN [panic |-> TRUE, val |-> None, conv |-> <<>>, idx |-> <<>>]
    ELSE LET axis_length == len_of(self, axis)
         IN  IF len(self) = 0
             THEN [panic |-> FALSE, val |-> None, conv |-> <<>>, idx |-> <<>>]
             ELSE IF ~from_usize(axis_length).some
             THEN [panic |-> TRUE, val |-> None,
                   conv |-> <<axis_length>>, idx |-> <<>>]
             ELSE [panic |-> FALSE,
                   val   |-> Some(array_div_scalar(sum_axis(self, axis).val,
                                      from_usize(axis_length).val)),
                   conv  |-> <<axis_length>>,
                   idx   |-> sum_axis(self, axis).idx]

\* mean_axis
mean_axis(self, axis) ==
    IF axis >= ndim(self)
    THEN [panic |-> TRUE, val |-> None, conv |-> <<>>, idx |-> <<>>]
    ELSE LET axis_length == len_of(self, axis)
         IN  IF axis_length = 0
             THEN [panic |-> FALSE, val |-> None, conv |-> <<>>, idx |-> <<>>]
             ELSE IF ~from_usize(axis_length).some
             THEN [panic |-> TRUE, val |-> None,
                   conv |-> <<axis_length>>, idx |-> <<>>]
             ELSE [panic |-> FALSE,
                   val   |-> Some(array_div_scalar(sum_axis(self, axis).val,
                                      from_usize(axis_length).val)),
                   conv  |-> <<axis_length>>,
                   idx   |-> sum_axis(self, axis).idx]

\* A faulty variant: the assertion also rejects ddof equal to the axis length.
var_axis_check_ge(self, axis, ddof) ==
    IF ~from_usize(0).some
    THEN [panic |-> TRUE, conv |-> <<0>>]
    ELSE IF axis >= ndim(self)
    THEN [panic |-> TRUE, conv |-> <<0>>]
    ELSE IF ~from_usize(len_of(self, axis)).some
    THEN [panic |-> TRUE, conv |-> <<0, len_of(self, axis)>>]
    ELSE LET n == from_usize(len_of(self, axis)).val
         IN  [panic |-> ~(~(lt(ddof, zero) \/ ~lt(ddof, n))),
              conv  |-> <<0, len_of(self, axis)>>]

\* var_axis, lines 378-385: the conversions and the assertion made before the
\* accumulators exist.  conv lists the from_usize calls made.
var_axis_check(self, axis, ddof) ==
    IF ~from_usize(0).some
    THEN [panic |-> TRUE, conv |-> <<0>>]
    ELSE IF axis >= ndim(self)
    THEN [panic |-> TRUE, conv |-> <<0>>]
    ELSE IF ~from_usize(len_of(self, axis)).some
    THEN [panic |-> TRUE, conv |-> <<0, len_of(self, axis)>>]
    ELSE LET n == from_usize(len_of(self, axis)).val
         IN  [panic |-> ~(~(lt(ddof, zero) \/ gt(ddof, n))),
              conv  |-> <<0, len_of(self, axis)>>]

\* let dof = n - ddof;
var_axis_dof(self, axis, ddof) ==
    sub(from_usize(len_of(self, axis)).val, ddof)

\* The body of the azip! closure, for one element position.
welford_mean(mn, x, count) == add(mn, div(sub(x, mn), count))

\* A faulty variant: both factors use the mean before its update.
welford_sum_sq_old_mean(mn, ssq, x, count) ==
    mul_add(sub(x, mn), sub(x, mn), ssq)

welford_sum_sq(mn, ssq, x, count) ==
    mul_add(sub(x, welford_mean(mn, x, count)), sub(x, mn), ssq)

\* A faulty variant: count is the enumerate index, not the index plus one.
var_axis_step_mean_prev_count(self, axis, mn, k) ==
    LET xs == Elems(index_axis(self, axis, k))
        ms == Elems(mn)
        count == from_usize(k).val
    IN  from_shape_vec(mn.dim,
            [p \in 1..Len(ms) |-> welford_mean(ms[p], xs[p], count)])

\* One iteration of the loop over axis_iter(axis).enumerate(): slice number
\* k (from 0) is zipped into mean and sum_sq.
var_axis_step_mean(self, axis, mn, k) ==
    LET xs == Elems(index_axis(self, axis, k))
        ms == Elems(mn)
        count == from_usize(k + 1).val
    IN  from_shape_vec(mn.dim,
            [p \in 1..Len(ms) |-> welford_mean(ms[p], xs[p], count)])

var_axis_step_sum_sq(self, axis, mn, ssq, k) ==
    LET xs == Elems(index_axis(self, axis, k))
        ms == Elems(mn)
        ss == Elems(ssq)
        count == from_usize(k + 1).val
    IN  from_shape_vec(ssq.dim,
            [p \in 1..Len(ss) |-> welford_sum_sq(ms[p], ss[p], xs[p], count)])

\* sum_sq.mapv_into(|s| s / dof)
var_axis_finish(ssq, dof) == array_div_scalar(ssq, dof)

(***************************************************************************)
(* Inputs.  An input array has a shape, its elements in logical order and  *)
(* a layout: "C" (owned, row-major), "F" (a transposed row-major array),   *)
(* "Rev" (row-major with the last axis inverted), "Step" (every second     *)
(* element of each axis of a larger row-major array) or "Bcast" (stride 0  *)
(* along the first axis: one slice broadcast along it, so that the         *)
(* elements given for the other slices are dropped).  Buffer positions     *)
(* outside the view hold Junk.                                             *)
(***************************************************************************)
Junk == Num(99)
Layouts == {"C", "F", "Rev", "Step", "Bcast"}

c_strides(dim) == [k \in 1..Len(dim) |-> Prod(SubSeq(dim, k + 1, Len(dim)))]
f_strides(dim) == [k \in 1..Len(dim) |-> Prod(SubSeq(dim, 1, k - 1))]

layout_strides(dim, L) ==
    CASE L = "C" -> default_strides(dim)
      [] L = "F" -> f_strides(dim)
      [] L = "Rev" -> [k \in 1..Len(dim) |->
                          IF k = Len(dim) THEN -1 ELSE c_strides(dim)[k]]
      [] L = "Step" -> [k \in 1..Len(dim) |-> 2 * c_strides(dim)[k]]
      [] L = "Bcast" -> [k \in 1..Len(dim) |->
                          IF k = 1 THEN 0 ELSE c_strides(dim)[k]]

layout_ptr(dim, L) ==
    IF L = "Rev" /\ dim # <<>> /\ dim[Len(dim)] > 0
    THEN dim[Len(dim)] - 1 ELSE 0

RECURSIVE Ravel(_, _)
Ravel(idx, dim) ==
    IF idx = <<>> THEN 0
    ELSE Head(idx) * Prod(Tail(dim)) + Ravel(Tail(idx), Tail(dim))

SetMax(S) == CHOOSE m \in S : \A n \in S : n <= m

Build(dim, vals, L) ==
    LET st == layout_strides(dim, L)
        p0 == layout_ptr(dim, L)
        offs == {p0 + Dot(idx, st) : idx \in Indices(dim)}
        buflen == IF offs = {} THEN 0 ELSE SetMax(offs) + 1
    IN  [dim     |-> dim,
         strides |-> st,
         ptr     |-> p0,
         data    |-> [o \in 1..buflen |->
                        IF o - 1 \in offs
                        THEN vals[Ravel(CHOOSE idx \in Indices(dim) :
                                            p0 + Dot(idx, st) = o - 1, dim) + 1]
                        ELSE Junk]]

\* Shapes of rank 1 and 2, extents of zero included.
Shapes ==
    {<<r>> : r \in 0..MaxElems}
    \cup {s \in {<<r, c>> : r \in 0..MaxElems, c \in 0..MaxElems} :
             s[1] * s[2] <= MaxElems}

Nums == {Num(v) : v \in 0..MaxVal}

\* The arrays of the doc tests of impl_numeric.rs.
NumSeq(s) == [k \in 1..Len(s) |-> Num(s[k])]
DocSum == Build(<<2, 2>>, NumSeq(<<1, 2, 3, 4>>), "C")
DocSumAxis == Build(<<2, 3>>, NumSeq(<<1, 2, 3, 4, 5, 6>>), "C")
DocVarAxis == Build(<<3, 2>>, NumSeq(<<1, 2, 3, 4, 5, 6>>), "C")
DocMax == Build(<<2, 2>>, <<Num(1), NaN, Num(3), Num(4)>>, "C")
DocNanMax == Build(<<2, 2>>, <<Num(1), NaN, Num(3), NaN>>, "C")
DocNanMin == Build(<<2, 2>>, <<NaN, Num(2), Num(3), NaN>>, "C")

Inputs(ValSet) ==
    UNION {UNION {{Build(dim, vals, L) : vals \in [1..Prod(dim) -> ValSet]}
                  : L \in Layouts}
           : dim \in Shapes}

NoOp == [name |-> "none", axis |-> 0, ddof |-> zero]
Call(name, axis, ddof) == [name |-> name, axis |-> axis, ddof |-> ddof]

InitWith(arrays) ==
    /\ a \in arrays
    /\ narrow \in BOOLEAN
    /\ op = NoOp
    /\ pc = "ready"
    /\ res = None
    /\ mean_acc = zeros(<<>>)
    /\ sum_sq = zeros(<<>>)
    /\ i = 0
    /\ conv_log = <<>>
    /\ index_log = <<>>

\* The axes a caller may pass: every axis of a 2-D array and one beyond.
Axes == 0..2

(***************************************************************************)
(* max, min, nanmax, nanmin                                                *)
(***************************************************************************)
Return(name, axis, ddof, value) ==
    /\ pc = "ready"
    /\ op' = Call(name, axis, ddof)
    /\ pc' = "done"
    /\ res' = value
    /\ UNCHANGED <<a, narrow, mean_acc, sum_sq, i>>

CallMax ==
    /\ Return("max", 0, zero, max(a))
    /\ UNCHANGED <<conv_log, index_log>>
CallMin ==
    /\ Return("min", 0, zero, min(a))
    /\ UNCHANGED <<conv_log, index_log>>
CallNanMax ==
    /\ Return("nanmax", 0, zero, nanmax(a))
    /\ UNCHANGED <<conv_log, index_log>>
CallNanMin ==
    /\ Return("nanmin", 0, zero, nanmin(a))
    /\ UNCHANGED <<conv_log, index_log>>

InitOrd == InitWith(Inputs(Nums \cup {NaN}) \cup {DocMax, DocNanMax, DocNanMin})
NextOrd == CallMax \/ CallMin \/ CallNanMax \/ CallNanMin
SpecOrd == InitOrd /\ [][NextOrd]_vars

(***************************************************************************)
(* Properties of max, min, nanmax and nanmin                               *)
(***************************************************************************)
Ordered(v) == eq(v, v)
AllOrdered(x) == \A k \in 1..len(x) : Ordered(Elems(x)[k])
NoneOrdered(x) == \A k \in 1..len(x) : ~Ordered(Elems(x)[k])
IsRefOf(x, r) == \E k \in 1..len(x) : Refs(x)[k] = r
Returned(name) == pc = "done" /\ op.name = name

\* C1: max() and min() return None exactly when the array is empty or holds
\* an element that is not ordered, wherever it sits; otherwise max() returns
\* an element no element exceeds and min() one no element is below.
C1_MaxMinPoison ==
    (Returned("max") \/ Returned("min")) =>
        /\ ~res.some <=> (len(a) = 0 \/ ~AllOrdered(a))
        /\ res.some =>
            /\ IsRefOf(a, res.val)
            /\ Returned("max") =>
                 \A k \in 1..len(a) : ~gt(Elems(a)[k], Deref(a, res.val))
            /\ Returned("min") =>
                 \A k \in 1..len(a) : ~lt(Elems(a)[k], Deref(a, res.val))

\* max() of an array whose only non-ordered element is in the middle.
C1_Witness ==
    /\ Returned("max")
    /\ len(a) = 3
    /\ Ordered(Elems(a)[1]) /\ ~Ordered(Elems(a)[2]) /\ Ordered(Elems(a)[3])
    /\ ~res.some

\* C2: nanmax() and nanmin() return None exactly when no element is ordered
\* (the empty array included); otherwise the result is an ordered element,
\* for nanmax() one that no ordered element exceeds, for nanmin() one that
\* no ordered element is below.
C2_NanMaxMinSkip ==
    (Returned("nanmax") \/ Returned("nanmin")) =>
        /\ ~res.some <=> NoneOrdered(a)
        /\ res.some =>
            /\ IsRefOf(a, res.val)
            /\ Ordered(Deref(a, res.val))
            /\ Returned("nanmax") =>
                 \A k \in 1..len(a) : ~gt(Elems(a)[k], Deref(a, res.val))
            /\ Returned("nanmin") =>
                 \A k \in 1..len(a) : ~lt(Elems(a)[k], Deref(a, res.val))

\* nanmax() of an array whose first element, the seed of the fold, is not
\* ordered and whose greatest ordered element is not the last one.
C2_Witness ==
    /\ Returned("nanmax")
    /\ len(a) = 3
    /\ ~Ordered(Elems(a)[1])
    /\ gt(Elems(a)[2], Elems(a)[3])
    /\ res.some /\ Deref(a, res.val) = Elems(a)[2]

\* The first and the last reference, in the order fold visits them, of an
\* element equal to v.
FirstEqual(x, v) ==
    fold_order(x)[CHOOSE k \in 1..len(x) :
        /\ eq(Deref(x, fold_order(x)[k]), v)
        /\ \A j \in 1..(k - 1) : ~eq(Deref(x, fold_order(x)[j]), v)]
LastEqual(x, v) ==
    fold_order(x)[CHOOSE k \in 1..len(x) :
        /\ eq(Deref(x, fold_order(x)[k]), v)
        /\ \A j \in (k + 1)..len(x) : ~eq(Deref(x, fold_order(x)[j]), v)]

\* C10: on a non-empty array of ordered elements max() and nanmax() return
\* equal values, and so do min() and nanmin(); among equal extremal elements
\* max() and min() return the last one visited, nanmax() and nanmin() the
\* first.
C10_VariantsAgree ==
    (pc = "done" /\ len(a) > 0 /\ AllOrdered(a)) =>
        /\ Returned("max") =>
             /\ res.some /\ nanmax(a).some
             /\ eq(Deref(a, res.val), Deref(a, nanmax(a).val))
             /\ res.val = LastEqual(a, Deref(a, res.val))
        /\ Returned("nanmax") =>
             /\ res.some /\ max(a).some
             /\ eq(Deref(a, res.val), Deref(a, max(a).val))
             /\ res.val = FirstEqual(a, Deref(a, res.val))
        /\ Returned("min") =>
             /\ res.some /\ nanmin(a).some
             /\ eq(Deref(a, res.val), Deref(a, nanmin(a).val))
             /\ res.val = LastEqual(a, Deref(a, res.val))
        /\ Returned("nanmin") =>
             /\ res.some /\ min(a).some
             /\ eq(Deref(a, res.val), Deref(a, min(a).val))
             /\ res.val = FirstEqual(a, Deref(a, res.val))

\* min() and nanmin() return different elements of equal value.
C10_Witness ==
    /\ Returned("min")
    /\ len(a) > 1 /\ AllOrdered(a)
    /\ res.some /\ nanmin(a).some
    /\ res.val # nanmin(a).val
    /\ eq(Deref(a, res.val), Deref(a, nanmin(a).val))

(***************************************************************************)
(* sum, mean, sum_axis, mean_axis                                          *)
(***************************************************************************)
Finish(name, axis, panicked, value, conv, idx) ==
    /\ pc = "ready"
    /\ op' = Call(name, axis, zero)
    /\ pc' = IF panicked THEN "panic" ELSE "done"
    /\ res' = value
    /\ conv_log' = conv
    /\ index_log' = idx
    /\ UNCHANGED <<a, narrow, mean_acc, sum_sq, i>>

CallSum == Finish("sum", 0, FALSE, sum(a), <<>>, <<>>)

CallMean ==
    Finish("mean", 0, mean(a).panic, mean(a).val, mean(a).conv, <<>>)

CallSumAxis ==
    \E axis \in Axes :
        Finish("sum_axis", axis, sum_axis(a, axis).panic,
               sum_axis(a, axis).val, <<>>, sum_axis(a, axis).idx)

CallMeanAxis ==
    \E axis \in Axes :
        Finish("mean_axis", axis, mean_axis(a, axis).panic,
               mean_axis(a, axis).val, mean_axis(a, axis).conv,
               mean_axis(a, axis).idx)

\* a.sum_axis(Axis(axis)).sum_axis(Axis(0)), as in the doc test of sum_axis.
sum_axis_twice(self, axis) ==
    LET r1 == sum_axis(self, axis)
        r2 == sum_axis(r1.val, 0)
    IN  IF r1.panic THEN r1
        ELSE [panic |-> r2.panic, val |-> r2.val, idx |-> r1.idx \o r2.idx]

CallSumAxisTwice ==
    \E axis \in Axes :
        Finish("sum_axis_twice", axis, sum_axis_twice(a, axis).panic,
               sum_axis_twice(a, axis).val, <<>>, sum_axis_twice(a, axis).idx)

InitSum == InitWith(Inputs(Nums) \cup {DocSum, DocSumAxis})
NextSum ==
    CallSum \/ CallMean \/ CallSumAxis \/ CallMeanAxis \/ CallSumAxisTwice
SpecSum == InitSum /\ [][NextSum]_vars

(***************************************************************************)
(* Properties of sum, mean, sum_axis, mean_axis                            *)
(***************************************************************************)
Called(name) == pc \in {"done", "panic"} /\ op.name = name

\* The index of self that extends idx, an index of the shape without axis,
\* by j at axis.
InsertAxis(idx, axis, j) ==
    SubSeq(idx, 1, axis) \o <<j>> \o SubSeq(idx, axis + 1, Len(idx))

\* The sum of the values of x along axis at position idx of the other axes.
LaneSum(x, axis, idx) ==
    FoldLeft(add, zero,
             [j \in 1..len_of(x, axis) |-> At(x, InsertAxis(idx, axis, j - 1))])

\* The mathematical sum of all elements of x.
TotalSum(x) == FoldLeft(add, zero, Elems(x))

\* r has the shape of x without axis and holds the sums along axis.
IsSumAlong(r, x, axis) ==
    /\ r.dim = remove_axis(x.dim, axis)
    /\ \A idx \in Indices(r.dim) : At(r, idx) = LaneSum(x, axis, idx)

\* C6: mean() returns None exactly for an array without elements, and then
\* without calling from_usize; for any other array it panics when the count
\* does not convert and returns sum() / count when it does.
C6_Mean ==
    Called("mean") =>
        /\ (pc = "done" /\ ~res.some) <=> len(a) = 0
        /\ len(a) = 0 => conv_log = <<>>
        /\ len(a) > 0 =>
            /\ conv_log = <<len(a)>>
            /\ pc = "panic" <=> ~from_usize(len(a)).some
            /\ pc = "done" => res = Some(div(TotalSum(a), Num(len(a))))

\* mean() of [[1, 2], [3, 4]] is 2.5.
C6_Witness ==
    /\ Called("mean")
    /\ a = DocSum
    /\ pc = "done" /\ res = Some(Rat(5, 2))

\* C7: reducing both axes of a 2-D array with sum_axis, either axis first,
\* gives the rank-0 array holding sum().
C7_SumAxisTwice ==
    (Called("sum_axis_twice") /\ ndim(a) = 2 /\ op.axis < 2) =>
        /\ pc = "done"
        /\ res.dim = <<>>
        /\ Elems(res) = <<sum(a)>>

\* Both axes of a non-square array in column-major layout reduced, the
\* second axis first.
C7_Witness ==
    /\ Called("sum_axis_twice")
    /\ op.axis = 1
    /\ a.dim = <<1, 3>> /\ a.strides = <<1, 1>>
    /\ pc = "done" /\ Elems(res) = <<Num(2)>>

\* C8: for an in-range axis sum_axis returns the array of the sums along the
\* axis, of the input's shape without that axis, on the fast path (rank 2,
\* stride 1 along the axis: one index_axis(Axis(1 - axis), i) per output
\* element) and on the general path (one index_axis(axis, i) per slice);
\* every index passed to index_axis is below the extent of its axis; the two
\* paths agree on every 2-D array; an axis of length zero gives zeros.
C8_SumAxisPaths ==
    (Called("sum_axis") /\ op.axis < ndim(a)) =>
        /\ pc = "done"
        /\ IsSumAlong(res, a, op.axis)
        /\ \A k \in 1..Len(index_log) :
              /\ index_log[k][1] < ndim(a)
              /\ index_log[k][3] = len_of(a, index_log[k][1])
              /\ index_log[k][2] < index_log[k][3]
        /\ sum_axis_is_fast(a, op.axis) =>
              /\ Len(index_log) = len_of(a, 1 - op.axis)
              /\ \A k \in 1..Len(index_log) :
                    index_log[k][1] = 1 - op.axis /\ index_log[k][2] = k - 1
        /\ ~sum_axis_is_fast(a, op.axis) =>
              /\ Len(index_log) = len_of(a, op.axis)
              /\ \A k \in 1..Len(index_log) :
                    index_log[k][1] = op.axis /\ index_log[k][2] = k - 1
        /\ ndim(a) = 2 =>
              Elems(sum_axis_fast(a, op.axis).val)
                  = Elems(sum_axis_general(a, op.axis).val)
        /\ len_of(a, op.axis) = 0 =>
              \A idx \in Indices(res.dim) : At(res, idx) = zero

\* The fast path: sum_axis(Axis(1)) of the row-major [[1, 2, 3], [4, 5, 6]]
\* is [6, 15], from index_axis(Axis(0), 0) and index_axis(Axis(0), 1).
C8_Witness ==
    /\ Called("sum_axis")
    /\ a = DocSumAxis /\ op.axis = 1
    /\ sum_axis_is_fast(a, op.axis)
    /\ pc = "done" /\ Elems(res) = NumSeq(<<6, 15>>)
    /\ index_log = <<<<0, 0, 2>>, <<0, 1, 2>>>>

\* The statement of C5 as written: for an in-range axis mean_axis returns,
\* None exactly when the axis has length zero.
C5_AsStated ==
    Called("mean_axis") =>
        /\ op.axis >= ndim(a) => pc = "panic"
        /\ op.axis < ndim(a) =>
            /\ pc = "done"
            /\ ~res.some <=> len_of(a, op.axis) = 0
            /\ res.some =>
                /\ res.val.dim = remove_axis(a.dim, op.axis)
                /\ \A idx \in Indices(res.val.dim) :
                      At(res.val, idx)
                          = div(LaneSum(a, op.axis, idx),
                                Num(len_of(a, op.axis)))

\* C5: mean_axis panics when axis is out of range, also on an array with an
\* axis of length zero; for an in-range axis of length zero it returns None;
\* for an in-range axis of length n > 0 it panics when n does not convert to
\* the element type and otherwise returns the array, of rank rank - 1, of the
\* elements of sum_axis(axis) divided by n.
C5_MeanAxis ==
    Called("mean_axis") =>
        /\ op.axis >= ndim(a) => pc = "panic"
        /\ (op.axis < ndim(a) /\ len_of(a, op.axis) = 0) =>
              pc = "done" /\ ~res.some
        /\ (op.axis < ndim(a) /\ len_of(a, op.axis) > 0) =>
            /\ pc = "panic" <=> ~from_usize(len_of(a, op.axis)).some
            /\ pc = "done" =>
                /\ res.some
                /\ ndim(res.val) = ndim(a) - 1
                /\ res.val.dim = remove_axis(a.dim, op.axis)
                /\ \A idx \in Indices(res.val.dim) :
                      /\ At(res.val, idx)
                           = div(At(sum_axis(a, op.axis).val, idx),
                                 Num(len_of(a, op.axis)))
                      /\ At(res.val, idx)
                           = div(LaneSum(a, op.axis, idx),
                                 Num(len_of(a, op.axis)))

\* mean_axis(Axis(0)) of [[1, 2, 3], [4, 5, 6]] is [2.5, 3.5, 4.5].
C5_Witness ==
    /\ Called("mean_axis")
    /\ a = DocSumAxis /\ op.axis = 0
    /\ pc = "done" /\ res.some
    /\ Elems(res.val) = <<Rat(5, 2), Rat(7, 2), Rat(9, 2)>>

(***************************************************************************)
(* var_axis                                                                *)
(***************************************************************************)
\* The ddof values a caller passes for an axis of length n: below zero,
\* zero, a fraction, one, n, above n, and NaN.
DDofs(n) == {Num(-1), zero, Rat(1, 2), Num(1), Num(n), Num(n + 1), NaN}

VarAxisStart ==
    /\ pc = "ready"
    /\ \E axis \in Axes :
         \E ddof \in DDofs(IF axis < ndim(a) THEN len_of(a, axis) ELSE 0) :
            /\ op' = Call("var_axis", axis, ddof)
            /\ conv_log' = var_axis_check(a, axis, ddof).conv
            /\ IF var_axis_check(a, axis, ddof).panic
               THEN /\ pc' = "panic"
                    /\ UNCHANGED <<mean_acc, sum_sq>>
               ELSE /\ pc' = "loop"
                    /\ mean_acc' = zeros(remove_axis(a.dim, axis))
                    /\ sum_sq' = zeros(remove_axis(a.dim, axis))
    /\ i' = 0
    /\ UNCHANGED <<a, narrow, res, index_log>>

VarAxisStep ==
    /\ pc = "loop"
    /\ i < len_of(a, op.axis)
    /\ conv_log' = Append(conv_log, i + 1)
    /\ IF ~from_usize(i + 1).some
       THEN /\ pc' = "panic"
            /\ UNCHANGED <<mean_acc, sum_sq, i>>
       ELSE /\ pc' = "loop"
            /\ mean_acc' = var_axis_step_mean(a, op.axis, mean_acc, i)
            /\ sum_sq' = var_axis_step_sum_sq(a, op.axis, mean_acc, sum_sq, i)
            /\ i' = i + 1
    /\ UNCHANGED <<a, narrow, op, res, index_log>>

VarAxisFinish ==
    /\ pc = "loop"
    /\ i = len_of(a, op.axis)
    /\ pc' = "done"
    /\ res' = var_axis_finish(sum_sq, var_axis_dof(a, op.axis, op.ddof))
    /\ UNCHANGED <<a, narrow, op, mean_acc, sum_sq, i, conv_log, index_log>>

InitVar == InitWith(Inputs(Nums) \cup {DocVarAxis})
NextVar == VarAxisStart \/ VarAxisStep \/ VarAxisFinish
SpecVar == InitVar /\ [][NextVar]_vars

(***************************************************************************)
(* Properties of var_axis                                                  *)
(***************************************************************************)
InVarAxis == op.name = "var_axis"
AxisInRange == op.axis < ndim(a)
AxisLen == len_of(a, op.axis)
DdofRejected == lt(op.ddof, zero) \/ gt(op.ddof, Num(AxisLen))
NothingAccumulated ==
    /\ i = 0
    /\ mean_acc = zeros(<<>>) /\ sum_sq = zeros(<<>>)
    /\ res = None
    /\ \A k \in 1..Len(conv_log) :
          conv_log[k] = 0 \/ (AxisInRange /\ k = 2 /\ conv_log[k] = AxisLen)

Lane(x, axis, idx) ==
    [j \in 1..len_of(x, axis) |-> At(x, InsertAxis(idx, axis, j - 1))]
LaneMean(x, axis, idx) ==
    div(FoldLeft(add, zero, Lane(x, axis, idx)), Num(len_of(x, axis)))
SquaredDeviations(x, axis, idx) ==
    LET xs == Lane(x, axis, idx)
        m == LaneMean(x, axis, idx)
    IN  [j \in 1..Len(xs) |-> mul(sub(xs[j], m), sub(xs[j], m))]
Variance(x, axis, idx, ddof) ==
    mul(div(Num(1), sub(Num(len_of(x, axis)), ddof)),
        FoldLeft(add, zero, SquaredDeviations(x, axis, idx)))

\* C4: for an in-range axis of length n >= 1 and 0 <= ddof < n, the element
\* of var_axis(axis, ddof) at every position is
\* (1 / (n - ddof)) * sum_i (x_i - m)^2, m the mean of the values x_1..x_n
\* along the axis at that position.
C4_VarAxisValue ==
    (InVarAxis /\ pc = "done" /\ AxisLen >= 1
        /\ ~lt(op.ddof, zero) /\ lt(op.ddof, Num(AxisLen))) =>
        /\ res.dim = remove_axis(a.dim, op.axis)
        /\ \A idx \in Indices(res.dim) :
              At(res, idx) = Variance(a, op.axis, idx, op.ddof)

\* var_axis(Axis(0), 1.) of [[1, 2], [3, 4], [5, 6]] is [4, 4].
C4_Witness ==
    /\ InVarAxis /\ pc = "done"
    /\ a = DocVarAxis /\ op.axis = 0 /\ op.ddof = Num(1)
    /\ Elems(res) = NumSeq(<<4, 4>>)

\* The three kinds of step of var_axis.
VarStarts == pc = "ready" /\ pc' = "loop"
VarConsumes == pc = "loop" /\ pc' = "loop" /\ i' # i
VarFinishes == pc = "loop" /\ pc' = "done"

\* The accumulators start as zeros of the shape without the axis.
VarStartsAtZero ==
    VarStarts =>
        /\ i' = 0
        /\ mean_acc' = zeros(remove_axis(a.dim, op'.axis))
        /\ sum_sq' = zeros(remove_axis(a.dim, op'.axis))

\* A step consumes the slice of index i, dividing delta by k.
VarConsumesSlice(k) ==
    VarConsumes =>
        /\ i < AxisLen /\ i' = i + 1
        /\ mean_acc'.dim = mean_acc.dim /\ sum_sq'.dim = sum_sq.dim
        /\ \A idx \in Indices(mean_acc.dim) :
              LET x == At(a, InsertAxis(idx, op.axis, i))
                  delta == sub(x, At(mean_acc, idx))
              IN  /\ At(mean_acc', idx)
                        = add(At(mean_acc, idx), div(delta, Num(k)))
                  /\ At(sum_sq', idx)
                        = add(At(sum_sq, idx),
                              mul(sub(x, At(mean_acc', idx)), delta))

\* After the last slice sum_sq is divided by axis length - ddof.
VarDividesByDof ==
    VarFinishes =>
        /\ i = AxisLen
        /\ res'.dim = sum_sq.dim
        /\ \A idx \in Indices(sum_sq.dim) :
              At(res', idx)
                  = div(At(sum_sq, idx), sub(Num(AxisLen), op.ddof))

\* The statement of C9 as written: the (k+1)-th slice, counted from 1, that
\* is the slice of index i = k, divides delta by k.
C9_AsStated ==
    [][VarStartsAtZero /\ VarConsumesSlice(i) /\ VarDividesByDof]_vars

\* C9: mean and sum_sq start at zero; the slices are consumed in increasing
\* index order; the k-th slice, counted from 1, updates every position by
\* delta = x - mean; mean += delta / k; sum_sq += (x - mean) * delta with
\* the updated mean in x - mean; after the last slice sum_sq is divided by
\* axis length - ddof.
C9_Welford ==
    [][VarStartsAtZero /\ VarConsumesSlice(i + 1) /\ VarDividesByDof]_vars

\* All three slices of [[1, 2], [3, 4], [5, 6]] consumed along axis 0.
C9_Witness ==
    /\ InVarAxis /\ pc = "loop"
    /\ a = DocVarAxis /\ op.axis = 0
    /\ i = 3
    /\ Elems(mean_acc) = NumSeq(<<3, 4>>)
    /\ Elems(sum_sq) = NumSeq(<<8, 8>>)

====
